---- MODULE Spec2Model ----
(***************************************************************************)
(* Model of the test-session provider of NatSchix                          *)
(* (src/src/contexts/TestContext.tsx): the session state held by           *)
(* TestProvider, the question loader, the per-subject scorer and the       *)
(* result submitter, together with the identity supplied by AuthProvider.  *)
(*                                                                         *)
(* Every React event handler is one action.  An async function is split at *)
(* its await: the part before the await is the action that issues the      *)
(* request, the part after it is the action that handles the response.     *)
(* Nullable values (T | null) are modelled as sequences of length at most  *)
(* one: None is null, Some(x) is the value x.                              *)
(***************************************************************************)
EXTENDS Integers, Sequences, FiniteSets, TLC

VARIABLES
    testState,      \* useState<TestState>            (TestContext.tsx:113-120)
    user,           \* useState<User | null>          (TestContext.tsx:408)
    authPending,    \* handleUserSession calls awaiting checkRegistrationStatus
    now,            \* the latest reading of the clock (new Date()), in ms
    loads,          \* loadQuestions calls awaiting the questions fetch
    fetched,        \* the fetch response whose continuation is about to run
    binding,        \* which of the two `const submitTest` the provider exposes
    subjectScores,  \* local of the latest submitTest call (TestContext.tsx:199)
    testResults,    \* local of the latest submitTest call (TestContext.tsx:222)
    inflight,       \* batches handed to insert() whose response is awaited
    persisted,      \* batches the backend has stored
    outcome,        \* how the latest settled submitTest promise settled
    work,           \* budget spent by the calls made so far
    db              \* the test_results table and the reply to the latest request

vars == <<testState, user, authPending, now, loads, fetched, binding,
          subjectScores, testResults, inflight, persisted, outcome, work, db>>

(***************************************************************************)
(* Bounds of the model.                                                    *)
(***************************************************************************)
MaxWork == 4          \* events of one run (see the budget below)
MaxQuestions == 3     \* longest session the scorer is applied to directly
MaxRows == 2          \* rows inserted into test_results in one run
MaxFetched == 2       \* rows of a fetch whose conversion is followed to the scorer

(***************************************************************************)
(* Program constants.                                                      *)
(***************************************************************************)
SessionSize == 6          \* Math.min(6, ...) / slice(0, 6)
InitialTime == 3600       \* timeRemaining: 3600
TickMs == 1500            \* the clock advances in steps of 1.5 s

None == <<>>
Some(x) == <<x>>

Min(a, b) == IF a <= b THEN a ELSE b
Max(a, b) == IF a >= b THEN a ELSE b

(***************************************************************************)
(* mockQuestions: the built-in fallback set.                               *)
(***************************************************************************)
mockQuestions ==
    << [id |-> "math_1", subject |-> "Math",
        question |-> "What is 15 x 8?",
        options |-> <<"120", "110", "130", "125">>,
        correctAnswer |-> 0, difficulty |-> "easy"],
       [id |-> "math_2", subject |-> "Math",
        question |-> "Solve for x: 2x + 5 = 17",
        options |-> <<"6", "5", "7", "8">>,
        correctAnswer |-> 0, difficulty |-> "medium"],
       [id |-> "science_1", subject |-> "Science",
        question |-> "What is the chemical symbol for gold?",
        options |-> <<"Go", "Gd", "Au", "Ag">>,
        correctAnswer |-> 2, difficulty |-> "easy"],
       [id |-> "science_2", subject |-> "Science",
        question |-> "Which planet is known as the Red Planet?",
        options |-> <<"Venus", "Mars", "Jupiter", "Saturn">>,
        correctAnswer |-> 1, difficulty |-> "easy"],
       [id |-> "reasoning_1", subject |-> "Reasoning",
        question |-> "If all roses are flowers and some flowers are red, then:",
        options |-> <<"All roses are red", "Some roses are red",
                      "No roses are red", "Cannot be determined">>,
        correctAnswer |-> 3, difficulty |-> "medium"],
       [id |-> "reasoning_2", subject |-> "Reasoning",
        question |-> "What comes next in the sequence: 2, 6, 12, 20, ?",
        options |-> <<"28", "30", "32", "34">>,
        correctAnswer |-> 1, difficulty |-> "medium"] >>

(***************************************************************************)
(* The rows of the remote `questions` table.  Ids are UUID strings (the    *)
(* primary key), correct_answer is 1-based (CHECK 1..4).                   *)
(***************************************************************************)
RemoteRows ==
    { [id |-> "uuid_1", subject |-> "Math", question |-> "2 + 2 = ?",
       option_a |-> "4", option_b |-> "3", option_c |-> "5", option_d |-> "6",
       correct_answer |-> 1, difficulty |-> "easy"],
      [id |-> "uuid_2", subject |-> "Math", question |-> "3 x 3 = ?",
       option_a |-> "6", option_b |-> "9", option_c |-> "12", option_d |-> "3",
       correct_answer |-> 2, difficulty |-> "medium"] }

\* q.id.toString(): the id column is a UUID, which the client receives as a
\* string; toString() of a string is that string.
IdToString(id) == id

\* Variant: keeps the 1-based correct_answer of the table.
ConvertRowOneBased(q) ==
    [id |-> IdToString(q.id),
     subject |-> q.subject,
     question |-> q.question,
     options |-> <<q.option_a, q.option_b, q.option_c, q.option_d>>,
     correctAnswer |-> q.correct_answer,
     difficulty |-> q.difficulty]

\* The row conversion of loadQuestions.
ConvertRow(q) ==
    [id |-> IdToString(q.id),
     subject |-> q.subject,
     question |-> q.question,
     options |-> <<q.option_a, q.option_b, q.option_c, q.option_d>>,
     correctAnswer |-> q.correct_answer - 1,
     difficulty |-> q.difficulty]

\* The sequences holding each element of a set exactly once.
Orderings(S) ==
    { s \in [1..Cardinality(S) -> S] :
        \A i, j \in 1..Cardinality(S) : i # j => s[i] # s[j] }

\* What the await of the questions fetch can yield: a thrown exception, a
\* response carrying an error, a response without data, or rows of the
\* table (any of them, in any order, none when the table is empty).
FetchRows == UNION { Orderings(S) : S \in SUBSET RemoteRows }

FetchOutcomes ==
    { [kind |-> "throw", error |-> FALSE, data |-> None] }
    \cup { [kind |-> "error", error |-> TRUE, data |-> None] }
    \cup { [kind |-> "absent", error |-> FALSE, data |-> None] }
    \cup { [kind |-> IF rows = <<>> THEN "empty" ELSE "rows",
            error |-> FALSE, data |-> Some(rows)] : rows \in FetchRows }


\* [...a].sort(() => Math.random() - 0.5): the comparator answers at random,
\* so the sort may return any permutation of a.
Shuffles(a) ==
    { [i \in 1..Len(a) |-> a[p[i]]] :
        p \in { f \in [1..Len(a) -> 1..Len(a)] :
                  \A i, j \in 1..Len(a) : i # j => f[i] # f[j] } }

\* Variant: takes the element at index n as well.
Slice0Inclusive(a, n) == SubSeq(a, 1, Min(Max(n + 1, 0), Len(a)))

\* a.slice(0, n)
Slice0(a, n) == SubSeq(a, 1, Min(Max(n, 0), Len(a)))

MockShuffles == Shuffles(mockQuestions)

\* initialAnswers
InitialAnswer(q) ==
    [questionId |-> q.id, selectedAnswer |-> None, timeSpent |-> 0, marked |-> FALSE]

InitialAnswers(qs) == [i \in 1..Len(qs) |-> InitialAnswer(qs[i])]

\* Variant: stamps the session with the time of the mount.
FreshSessionStale(qs, t) ==
    [questions |-> qs,
     answers |-> InitialAnswers(qs),
     currentQuestion |-> 0,
     timeRemaining |-> InitialTime,
     isActive |-> TRUE,
     startTime |-> Some(0)]

\* The state object both branches of loadQuestions pass to setTestState.
FreshSession(qs, t) ==
    [questions |-> qs,
     answers |-> InitialAnswers(qs),
     currentQuestion |-> 0,
     timeRemaining |-> InitialTime,
     isActive |-> TRUE,
     startTime |-> Some(t)]

\* The sessions the try branch of loadQuestions can set for a fetch response.
TrySessions(o, t) ==
    LET useRemote == ~o.error /\ o.data # None /\ Len(o.data[1]) > 0
        rows == o.data[1]
        pools == IF useRemote
                 THEN Shuffles([i \in 1..Len(rows) |-> ConvertRow(rows[i])])
                 ELSE MockShuffles
    IN { FreshSession(Slice0(s, Min(SessionSize, Len(s))), t) : s \in pools }

\* Variant: the catch branch takes one question too few.
CatchSessionsShort(t) ==
    { FreshSession(Slice0(s, SessionSize - 1), t) : s \in MockShuffles }

\* The sessions the catch branch of loadQuestions can set.
CatchSessions(t) ==
    { FreshSession(Slice0(s, SessionSize), t) : s \in MockShuffles }

LoadSessions(o, t) ==
    IF o.kind = "throw" THEN CatchSessions(t) ELSE TrySessions(o, t)

\* The test_results table before any request: no row, no reply.
InitialDb == [rows |-> {}, nextId |-> 1, reply |-> None]

(***************************************************************************)
(* The state after construction.                                           *)
(***************************************************************************)
InitialTestState ==
    [questions |-> <<>>,
     answers |-> <<>>,
     currentQuestion |-> 0,
     timeRemaining |-> InitialTime,
     isActive |-> FALSE,
     startTime |-> None]

\* The providers are mounted: the session is empty, nobody is signed in, and
\* the mount effect of AuthProvider has asked for the stored auth session and,
\* when there is one, has called handleUserSession.
Init ==
    /\ testState = InitialTestState
    /\ user = None
    /\ authPending \in {0, 1}
    /\ now = 0
    /\ loads = 0
    /\ fetched = None
    /\ binding \in {"first", "second"}
    /\ subjectScores = <<>>
    /\ testResults = <<>>
    /\ inflight = <<>>
    /\ persisted = <<>>
    /\ outcome = "none"
    /\ work = 0
    /\ db = InitialDb

(***************************************************************************)
(* Scorer and submission records (first submitTest).                       *)
(***************************************************************************)
\* Variant: compares with the 1-based correct_answer of the table.
OneBasedEquals(selected, n) == selected = Some(n + 1)

\* Variant: a loose comparison that takes null for 0.
LooseEquals(selected, n) == selected = Some(n) \/ (selected = None /\ n = 0)

\* answer.selectedAnswer === question.correctAnswer: null equals no number.
StrictEquals(selected, n) == selected = Some(n)

\* Variant: opens an entry for every answer, known subject or not.
ScoreStepAlwaysOpens(scores, answers, questions, i) ==
    IF i > Len(questions) THEN scores
    ELSE Append(scores,
                [subject |-> questions[i].subject,
                 correct |-> IF answers[i].selectedAnswer = Some(questions[i].correctAnswer)
                             THEN 1 ELSE 0,
                 total |-> 1])

\* One iteration of testState.answers.forEach((answer, index) => ...).
ScoreStep(scores, answers, questions, i) ==
    IF i > Len(questions) THEN scores       \* if (!question) return
    ELSE
      LET subject == questions[i].subject
          known == \E k \in 1..Len(scores) : scores[k].subject = subject
          opened == IF known THEN scores
                    ELSE Append(scores, [subject |-> subject, correct |-> 0, total |-> 0])
          hit == StrictEquals(answers[i].selectedAnswer, questions[i].correctAnswer)
      IN [k \in 1..Len(opened) |->
            IF opened[k].subject = subject
            THEN [opened[k] EXCEPT !.total = @ + 1,
                                   !.correct = IF hit THEN @ + 1 ELSE @]
            ELSE opened[k]]

RECURSIVE ScoreLoop(_, _, _)
ScoreLoop(answers, questions, n) ==
    IF n = 0 THEN <<>>
    ELSE ScoreStep(ScoreLoop(answers, questions, n - 1), answers, questions, n)

\* The subjectScores object, as the sequence of its entries in insertion order.
SubjectScoresOf(ts) == ScoreLoop(ts.answers, ts.questions, Len(ts.answers))

\* Variant: Math.floor in place of Math.round.
MathFloor(num, den) == num \div den

\* Math.round(x) of the rational x = num / den >= 0: halves round up.
MathRound(num, den) == (2 * num + den) \div (2 * den)

\* Variant: a hundred points for each correct answer, not divided by the
\* total.
ScorePerCorrectAnswer(scores) ==
    IF scores.total > 0 THEN MathRound(100 * scores.correct, 1) ELSE 0

\* scores.total > 0 ? Math.round((scores.correct / scores.total) * 100) : 0
Score(scores) ==
    IF scores.total > 0 THEN MathRound(100 * scores.correct, scores.total) ELSE 0

\* Math.floor((new Date().getTime() - startTime.getTime()) / 1000), or 0
Duration(ts, t) ==
    IF ts.startTime # None THEN (t - ts.startTime[1]) \div 1000 ELSE 0

\* s.filter((_, index) => questions[index]?.subject === subject) over the
\* first n elements of s, indices counted from 1; questions[index] is
\* undefined beyond the end of questions.
RECURSIVE FilterBySubject(_, _, _, _)
FilterBySubject(s, questions, subject, n) ==
    IF n = 0 THEN <<>>
    ELSE IF n <= Len(questions) /\ questions[n].subject = subject
         THEN Append(FilterBySubject(s, questions, subject, n - 1), s[n])
         ELSE FilterBySubject(s, questions, subject, n - 1)

\* JSON.stringify of a question and of an answer record: the members in
\* property order; null stays null (None).
JsonQuestion(q) ==
    << <<"id", q.id>>, <<"subject", q.subject>>, <<"question", q.question>>,
       <<"options", q.options>>, <<"correctAnswer", q.correctAnswer>>,
       <<"difficulty", q.difficulty>> >>

JsonAnswer(a) ==
    << <<"questionId", a.questionId>>, <<"selectedAnswer", a.selectedAnswer>>,
       <<"timeSpent", a.timeSpent>>, <<"marked", a.marked>> >>

\* JSON.stringify of an array of questions and of an array of answers.
JsonQuestions(s) == [json |-> [i \in 1..Len(s) |-> JsonQuestion(s[i])]]

JsonAnswers(s) == [json |-> [i \in 1..Len(s) |-> JsonAnswer(s[i])]]

\* Date.prototype.toISOString: the UTC text of the millisecond timestamp.
ToISOString(t) == [iso |-> t]

\* Variant: snapshots the answers of every subject in each record.
TestResultAllAnswers(ts, u, entry, t) ==
    [email |-> u.email,
     test_time |-> IF ts.startTime # None THEN Some(ToISOString(ts.startTime[1])) ELSE None,
     subject |-> entry.subject,
     questions |-> JsonQuestions(FilterBySubject(ts.questions, ts.questions,
                                                 entry.subject, Len(ts.questions))),
     answers |-> JsonAnswers(ts.answers),
     score |-> Score(entry),
     duration_seconds |-> Duration(ts, t)]

\* One element of testResults.
TestResult(ts, u, entry, t) ==
    [email |-> u.email,
     test_time |-> IF ts.startTime # None THEN Some(ToISOString(ts.startTime[1])) ELSE None,
     subject |-> entry.subject,
     questions |-> JsonQuestions(FilterBySubject(ts.questions, ts.questions,
                                                 entry.subject, Len(ts.questions))),
     answers |-> JsonAnswers(FilterBySubject(ts.answers, ts.questions,
                                             entry.subject, Len(ts.answers))),
     score |-> Score(entry),
     duration_seconds |-> Duration(ts, t)]

\* Object.entries(subjectScores).map(...)
TestResultsOf(ts, u, scores, t) ==
    [k \in 1..Len(scores) |-> TestResult(ts, u, scores[k], t)]

(***************************************************************************)
(* Budget.  `work` counts the events of a run: the calls of the provider's *)
(* operations, the events from outside (a sign-in, a logout) and each time *)
(* the clock is seen to have advanced.  The continuation of an awaited     *)
(* request is not counted, except that a load which falls back to the      *)
(* built-in set is charged all the budget but two events: the 720 orders   *)
(* of the built-in set are explored for the runs that start a test at once *)
(* or after one event, and with one further event.                         *)
(***************************************************************************)
\* A call is an event of its own: it is not handled between a fetch
\* response and the continuation of the loadQuestions that awaited it.
CanCall == work < MaxWork /\ fetched = None

\* The charge for a load whose fetch settled with outcome o.
LoadCost(o) == IF o.kind = "rows" THEN 0 ELSE MaxWork - 2

RemoveAt(s, i) == SubSeq(s, 1, i - 1) \o SubSeq(s, i + 1, Len(s))

(***************************************************************************)
(* The clock: new Date() returns the previous reading or a later one.      *)
(***************************************************************************)
ClockReadings == {now, now + TickMs}

\* Seeing the clock advance is charged to the budget.
ClockCost(t) == IF t = now THEN 0 ELSE 1

(***************************************************************************)
(* AuthProvider.                                                           *)
(***************************************************************************)
\* The identities the provider can deliver.
Emails == {"a@example.com"}

\* userData of handleUserSession
UserData(email, isRegistered) ==
    [id |-> "id_of_" \o email, email |-> email, name |-> "User",
     isRegistered |-> isRegistered]

\* What checkRegistrationStatus can answer.
RegistrationAnswers == {FALSE}

\* onAuthStateChange with a session: handleUserSession runs up to its await.
AuthSignedIn ==
    /\ CanCall
    /\ authPending' = authPending + 1
    /\ work' = work + 1
    /\ UNCHANGED <<db, testState, user, now, loads, binding, subjectScores,
                   testResults, inflight, persisted, outcome, fetched>>

\* handleUserSession after checkRegistrationStatus answered.
HandleUserSession ==
    /\ authPending > 0
    /\ fetched = None
    /\ \E email \in Emails, isRegistered \in RegistrationAnswers :
          user' = Some(UserData(email, isRegistered))
    /\ authPending' = authPending - 1
    /\ UNCHANGED <<db, testState, now, loads, binding, subjectScores,
                   testResults, inflight, persisted, outcome, work, fetched>>

\* logout after signOut answered (also onAuthStateChange without a session).
Logout ==
    /\ CanCall
    /\ user # None
    /\ user' = None
    /\ work' = work + 1
    /\ UNCHANGED <<db, testState, authPending, now, loads, binding, subjectScores,
                   testResults, inflight, persisted, outcome, fetched>>

(***************************************************************************)
(* TestProvider.                                                           *)
(***************************************************************************)
\* startTest: loadQuestions runs up to the await of the questions fetch.
StartTest ==
    /\ CanCall
    /\ loads' = loads + 1
    /\ work' = work + 1
    /\ UNCHANGED <<db, testState, user, authPending, now, binding, subjectScores,
                   testResults, inflight, persisted, outcome, fetched>>

\* The questions fetch of a pending loadQuestions settles with outcome o.
FetchSettles(o) ==
    /\ loads > 0
    /\ fetched = None
    /\ work + LoadCost(o) <= MaxWork
    /\ fetched' = Some(o)
    /\ UNCHANGED <<db, testState, user, authPending, now, loads, binding,
                   subjectScores, testResults, inflight, persisted, outcome, work>>

\* loadQuestions continues after the await with the settled outcome.
LoadQuestions ==
    /\ fetched # None
    /\ \E t \in ClockReadings :
          /\ work + ClockCost(t) + LoadCost(fetched[1]) <= MaxWork
          /\ now' = t
          /\ work' = work + ClockCost(t) + LoadCost(fetched[1])
          /\ testState' \in LoadSessions(fetched[1], t)
    /\ loads' = loads - 1
    /\ fetched' = None
    /\ UNCHANGED <<db, user, authPending, binding, subjectScores,
                   testResults, inflight, persisted, outcome>>

\* Variant: leaves the active flag as it is.
EndTestUpdateKeeps(prev) == prev

\* Variant: also discards the answers and rewinds the cursor.
EndTestUpdateClears(prev) ==
    [prev EXCEPT !.isActive = FALSE, !.answers = <<>>, !.currentQuestion = 0]

\* Variant: also forgets when the session started.
EndTestUpdateForgetsStart(prev) ==
    [prev EXCEPT !.isActive = FALSE, !.startTime = None]

EndTestUpdate(prev) == [prev EXCEPT !.isActive = FALSE]

endTest ==
    /\ CanCall
    /\ testState' = EndTestUpdate(testState)
    /\ work' = work + 1
    /\ UNCHANGED <<db, user, authPending, now, loads, binding, subjectScores,
                   testResults, inflight, persisted, outcome, fetched>>

\* Variant: keeps only the record of the question answered.
SelectAnswerUpdateFilter(prev, questionId, answer) ==
    [prev EXCEPT !.answers =
        [i \in 1..Len(SelectSeq(prev.answers, LAMBDA a : a.questionId = questionId)) |->
            [SelectSeq(prev.answers, LAMBDA a : a.questionId = questionId)[i]
                EXCEPT !.selectedAnswer = Some(answer)]]]

\* Variant: ignores an option index outside 0..3.
SelectAnswerUpdateChecked(prev, questionId, answer) ==
    [prev EXCEPT !.answers =
        [i \in 1..Len(prev.answers) |->
            IF prev.answers[i].questionId = questionId /\ answer \in 0..3
            THEN [prev.answers[i] EXCEPT !.selectedAnswer = Some(answer)]
            ELSE prev.answers[i]]]

SelectAnswerUpdate(prev, questionId, answer) ==
    [prev EXCEPT !.answers =
        [i \in 1..Len(prev.answers) |->
            IF prev.answers[i].questionId = questionId
            THEN [prev.answers[i] EXCEPT !.selectedAnswer = Some(answer)]
            ELSE prev.answers[i]]]

selectAnswer(questionId, answer) ==
    /\ CanCall
    /\ testState' = SelectAnswerUpdate(testState, questionId, answer)
    /\ work' = work + 1
    /\ UNCHANGED <<db, user, authPending, now, loads, binding, subjectScores,
                   testResults, inflight, persisted, outcome, fetched>>

\* Variant: sets the flag in place of toggling it.
MarkForReviewUpdateSets(prev, questionId) ==
    [prev EXCEPT !.answers =
        [i \in 1..Len(prev.answers) |->
            IF prev.answers[i].questionId = questionId
            THEN [prev.answers[i] EXCEPT !.marked = TRUE]
            ELSE prev.answers[i]]]

MarkForReviewUpdate(prev, questionId) ==
    [prev EXCEPT !.answers =
        [i \in 1..Len(prev.answers) |->
            IF prev.answers[i].questionId = questionId
            THEN [prev.answers[i] EXCEPT !.marked = ~prev.answers[i].marked]
            ELSE prev.answers[i]]]

markForReview(questionId) ==
    /\ CanCall
    /\ testState' = MarkForReviewUpdate(testState, questionId)
    /\ work' = work + 1
    /\ UNCHANGED <<db, user, authPending, now, loads, binding, subjectScores,
                   testResults, inflight, persisted, outcome, fetched>>

\* Variant: clamps the index to the questions of the session.
NavigateUpdateClamps(prev, index) ==
    [prev EXCEPT !.currentQuestion = Max(0, Min(index, Len(prev.questions) - 1))]

NavigateUpdate(prev, index) == [prev EXCEPT !.currentQuestion = index]

navigateToQuestion(index) ==
    /\ CanCall
    /\ testState' = NavigateUpdate(testState, index)
    /\ work' = work + 1
    /\ UNCHANGED <<db, user, authPending, now, loads, binding, subjectScores,
                   testResults, inflight, persisted, outcome, fetched>>

\* Variant: wraps around to the first question after the last one.
NextQuestionUpdateWraps(prev) ==
    [prev EXCEPT !.currentQuestion =
        IF prev.currentQuestion + 1 > Len(prev.questions) - 1 THEN 0
        ELSE prev.currentQuestion + 1]

NextQuestionUpdate(prev) ==
    [prev EXCEPT !.currentQuestion =
        Min(prev.currentQuestion + 1, Len(prev.questions) - 1)]

nextQuestion ==
    /\ CanCall
    /\ testState' = NextQuestionUpdate(testState)
    /\ work' = work + 1
    /\ UNCHANGED <<db, user, authPending, now, loads, binding, subjectScores,
                   testResults, inflight, persisted, outcome, fetched>>

\* Variant: going back from the first question ends the session.
PreviousQuestionUpdateEnds(prev) ==
    [prev EXCEPT !.currentQuestion = Max(prev.currentQuestion - 1, 0),
                 !.isActive = IF prev.currentQuestion <= 0 THEN FALSE ELSE @]

PreviousQuestionUpdate(prev) ==
    [prev EXCEPT !.currentQuestion = Max(prev.currentQuestion - 1, 0)]

previousQuestion ==
    /\ CanCall
    /\ testState' = PreviousQuestionUpdate(testState)
    /\ work' = work + 1
    /\ UNCHANGED <<db, user, authPending, now, loads, binding, subjectScores,
                   testResults, inflight, persisted, outcome, fetched>>

\* submitTest of lines 192-248, called without an identity: throws before
\* the try block.
SubmitUnauthenticated ==
    /\ binding = "first"
    /\ CanCall
    /\ user = None
    /\ outcome' = "AuthenticationRequired"
    /\ work' = work + 1
    /\ UNCHANGED <<db, testState, user, authPending, now, loads, binding,
                   subjectScores, testResults, inflight, persisted, fetched>>

\* submitTest of lines 192-248 up to the await of the insert.
SubmitTest ==
    /\ binding = "first"
    /\ CanCall
    /\ user # None
    /\ \E t \in ClockReadings :
          LET scores == SubjectScoresOf(testState)
              results == TestResultsOf(testState, user[1], scores, t)
          IN /\ work + 1 + ClockCost(t) <= MaxWork
             /\ now' = t
             /\ work' = work + 1 + ClockCost(t)
             /\ subjectScores' = scores
             /\ testResults' = results
             /\ inflight' = Append(inflight, results)
    /\ UNCHANGED <<db, testState, user, authPending, loads, binding,
                   persisted, outcome, fetched>>

\* Variant: stores the answers of the session as they are when the insert
\* is answered.
InsertSucceededLateAnswers(i) ==
    /\ i \in 1..Len(inflight)
    /\ fetched = None
    /\ persisted' = Append(persisted,
          [k \in 1..Len(inflight[i]) |->
              [inflight[i][k] EXCEPT !.answers =
                  JsonAnswers(FilterBySubject(testState.answers, testState.questions,
                                              inflight[i][k].subject,
                                              Len(testState.answers)))]])
    /\ inflight' = RemoveAt(inflight, i)
    /\ testState' = EndTestUpdate(testState)
    /\ outcome' = "resolved"
    /\ UNCHANGED <<db, user, authPending, now, loads, binding, subjectScores,
                   testResults, work, fetched>>

\* submitTest after the insert answered without an error: endTest().
InsertSucceeded(i) ==
    /\ i \in 1..Len(inflight)
    /\ fetched = None
    /\ persisted' = Append(persisted, inflight[i])
    /\ inflight' = RemoveAt(inflight, i)
    /\ testState' = EndTestUpdate(testState)
    /\ outcome' = "resolved"
    /\ UNCHANGED <<db, user, authPending, now, loads, binding, subjectScores,
                   testResults, work, fetched>>

\* Variant: ends the test although the insert failed.
InsertFailedEndsTest(i) ==
    /\ i \in 1..Len(inflight)
    /\ fetched = None
    /\ inflight' = RemoveAt(inflight, i)
    /\ testState' = EndTestUpdate(testState)
    /\ outcome' = "PersistenceFailure"
    /\ UNCHANGED <<db, user, authPending, now, loads, binding,
                   subjectScores, testResults, persisted, work, fetched>>

\* submitTest after the insert answered with an error, or threw: the error
\* is logged and thrown again.
InsertFailed(i) ==
    /\ i \in 1..Len(inflight)
    /\ fetched = None
    /\ inflight' = RemoveAt(inflight, i)
    /\ outcome' = "PersistenceFailure"
    /\ UNCHANGED <<db, testState, user, authPending, now, loads, binding,
                   subjectScores, testResults, persisted, work, fetched>>

\* submitTest of lines 333-353: logs a summary and calls endTest().
SubmitTestSecond ==
    /\ binding = "second"
    /\ CanCall
    /\ testState' = EndTestUpdate(testState)
    /\ outcome' = "resolved"
    /\ work' = work + 1
    /\ UNCHANGED <<db, user, authPending, now, loads, binding, subjectScores,
                   testResults, inflight, persisted, fetched>>

(***************************************************************************)
(* Inputs of the calls.                                                    *)
(***************************************************************************)
QuestionIdInputs ==
    { testState.questions[i].id : i \in 1..Len(testState.questions) } \cup {"no_such_id"}

\* The option indices 0..3 and one index out of range.
AnswerInputs == 0..4

\* The first and last index, their neighbours, and the indices out of range.
IndexInputs ==
    {-1, 0, 1, Len(testState.questions) - 1, Len(testState.questions)}

Next ==
    \/ AuthSignedIn
    \/ HandleUserSession
    \/ Logout
    \/ StartTest
    \/ \E o \in FetchOutcomes : FetchSettles(o)
    \/ LoadQuestions
    \/ endTest
    \/ \E questionId \in QuestionIdInputs, answer \in AnswerInputs :
          selectAnswer(questionId, answer)
    \/ \E questionId \in QuestionIdInputs : markForReview(questionId)
    \/ \E index \in IndexInputs : navigateToQuestion(index)
    \/ nextQuestion
    \/ previousQuestion
    \/ SubmitUnauthenticated
    \/ SubmitTest
    \/ \E i \in 1..Len(inflight) : InsertSucceeded(i)
    \/ \E i \in 1..Len(inflight) : InsertFailed(i)
    \/ SubmitTestSecond

Spec == Init /\ [][Next]_vars

(***************************************************************************)
(* The scorer and the record builder applied directly.  A run begins with  *)
(* a signed-in user and a session the program can hold (questions of a     *)
(* remote table, answers set through selectAnswer and markForReview), and  *)
(* has one call left: the submit.                                          *)
(***************************************************************************)
ScorerIds == <<"q1", "q2", "q3", "q4", "q5", "q6">>
ScorerSubjects == {"Math", "Physics"}
ScorerCorrect == {0, 3}
ScorerSelected == {None, Some(0), Some(3)}

ScorerQuestion(i, subject, correct) ==
    [id |-> ScorerIds[i], subject |-> subject, question |-> "?",
     options |-> <<"a", "b", "c", "d">>,
     correctAnswer |-> correct, difficulty |-> "easy"]

\* A session of n questions with the given subjects, correct options and
\* selected answers.
ScorerSession(n, subj, corr, sel, marked) ==
    [questions |-> [i \in 1..n |-> ScorerQuestion(i, subj[i], corr[i])],
     answers |-> [i \in 1..n |->
                    [questionId |-> ScorerIds[i], selectedAnswer |-> sel[i],
                     timeSpent |-> 0, marked |-> marked]],
     currentQuestion |-> 0,
     timeRemaining |-> InitialTime,
     isActive |-> TRUE,
     startTime |-> Some(0)]

InitScorer ==
    /\ \E n \in 0..Min(MaxQuestions, SessionSize) :
          \E subj \in [1..n -> ScorerSubjects], corr \in [1..n -> ScorerCorrect],
             sel \in [1..n -> ScorerSelected], marked \in BOOLEAN :
             testState = ScorerSession(n, subj, corr, sel, marked)
    /\ user \in { Some(UserData(email, FALSE)) : email \in Emails }
    /\ authPending = 0
    /\ now = TickMs
    /\ loads = 0
    /\ fetched = None
    /\ binding = "first"
    /\ subjectScores = <<>>
    /\ testResults = <<>>
    /\ inflight = <<>>
    /\ persisted = <<>>
    /\ outcome = "none"
    /\ work = MaxWork - 1
    /\ db = InitialDb

NextScorer ==
    \/ SubmitTest
    \/ \E i \in 1..Len(inflight) : InsertSucceeded(i)
    \/ \E i \in 1..Len(inflight) : InsertFailed(i)

SpecScorer == InitScorer /\ [][NextScorer]_vars

(***************************************************************************)
(* The row conversion followed to the scorer.  A run begins when the fetch *)
(* of a start has answered with rows of the questions table, one row for   *)
(* each value correct_answer may take (CHECK BETWEEN 1 AND 4); the user is *)
(* signed in and has two calls left: selectAnswer and the submit.          *)
(***************************************************************************)
RowIds == <<"row_1", "row_2", "row_3", "row_4", "row_5", "row_6", "row_7">>

RowByAnswer(k) ==
    [id |-> RowIds[k],
     subject |-> IF k % 2 = 1 THEN "Math" ELSE "Science",
     question |-> "?",
     option_a |-> "A", option_b |-> "B", option_c |-> "C", option_d |-> "D",
     correct_answer |-> ((k - 1) % 4) + 1, difficulty |-> "easy"]

RowsByAnswer == { RowByAnswer(k) : k \in 1..4 }

InitRows ==
    /\ testState = InitialTestState
    /\ user \in { Some(UserData(email, FALSE)) : email \in Emails }
    /\ authPending = 0
    /\ now = 0
    /\ loads = 1
    /\ \E S \in SUBSET RowsByAnswer :
          /\ Cardinality(S) \in 1..Min(MaxFetched, 4)
          /\ \E rows \in Orderings(S) :
                fetched = Some([kind |-> "rows", error |-> FALSE, data |-> Some(rows)])
    /\ binding = "first"
    /\ subjectScores = <<>>
    /\ testResults = <<>>
    /\ inflight = <<>>
    /\ persisted = <<>>
    /\ outcome = "none"
    /\ work = MaxWork - 2
    /\ db = InitialDb

NextRows ==
    \/ LoadQuestions
    \/ \E questionId \in QuestionIdInputs, answer \in AnswerInputs :
          selectAnswer(questionId, answer)
    \/ SubmitTest

SpecRows == InitRows /\ [][NextRows]_vars

(***************************************************************************)
(* The selection of the session's questions.  A run begins when the fetch  *)
(* of a start has settled: with any of the outcomes of the main            *)
(* specification, or with one row more than a session holds, the smallest  *)
(* pool the selection truncates.  The load is the only step.               *)
(***************************************************************************)
LargePoolRows == [k \in 1..(SessionSize + 1) |-> RowByAnswer(k)]

PoolOutcomes ==
    FetchOutcomes
    \cup { [kind |-> "rows", error |-> FALSE, data |-> Some(LargePoolRows)] }

InitPool ==
    /\ testState = InitialTestState
    /\ user = None
    /\ authPending = 0
    /\ now = 0
    /\ loads = 1
    /\ fetched \in { Some(o) : o \in PoolOutcomes }
    /\ binding = "first"
    /\ subjectScores = <<>>
    /\ testResults = <<>>
    /\ inflight = <<>>
    /\ persisted = <<>>
    /\ outcome = "none"
    /\ work = 0
    /\ db = InitialDb

NextPool == LoadQuestions

SpecPool == InitPool /\ [][NextPool]_vars

(***************************************************************************)
(* An end while a load is in flight.  A run begins with an active session  *)
(* of remote questions and a further start already invoked, its fetch not  *)
(* yet settled.  No start is invoked during the run: the steps are end and *)
(* the settling and continuation of the pending load.                      *)
(***************************************************************************)
\* The sessions a load of remote rows at time t can have set.
RemoteSessions(t) ==
    UNION { TrySessions(o, t) : o \in { f \in FetchOutcomes : f.kind = "rows" } }

InitEndDuringLoad ==
    /\ testState \in RemoteSessions(0)
    /\ user = None
    /\ authPending = 0
    /\ now = 0
    /\ loads = 1
    /\ fetched = None
    /\ binding \in {"first", "second"}
    /\ subjectScores = <<>>
    /\ testResults = <<>>
    /\ inflight = <<>>
    /\ persisted = <<>>
    /\ outcome = "none"
    /\ work = 0
    /\ db = InitialDb

NextEndDuringLoad ==
    \/ endTest
    \/ \E o \in FetchOutcomes : FetchSettles(o)
    \/ LoadQuestions

SpecEndDuringLoad == InitEndDuringLoad /\ [][NextEndDuringLoad]_vars

(***************************************************************************)
(* A start while a submit is in flight.  A run begins with an active       *)
(* session of remote questions that has been submitted, the insert of its  *)
(* records not yet answered, and a start already invoked, its fetch not    *)
(* yet settled.  No submit, start or end is invoked during the run: the    *)
(* steps are the settling and continuation of the pending load and the     *)
(* answer to the pending insert.                                           *)
(***************************************************************************)
InitSubmitDuringLoad ==
    /\ testState \in RemoteSessions(0)
    /\ user \in { Some(UserData(email, FALSE)) : email \in Emails }
    /\ authPending = 0
    /\ now = 0
    /\ loads = 1
    /\ fetched = None
    /\ binding = "first"
    /\ subjectScores = SubjectScoresOf(testState)
    /\ testResults = TestResultsOf(testState, user[1], subjectScores, now)
    /\ inflight = <<testResults>>
    /\ persisted = <<>>
    /\ outcome = "none"
    /\ work = 0
    /\ db = InitialDb

NextSubmitDuringLoad ==
    \/ \E o \in FetchOutcomes : FetchSettles(o)
    \/ LoadQuestions
    \/ \E i \in 1..Len(inflight) : InsertSucceeded(i)
    \/ \E i \in 1..Len(inflight) : InsertFailed(i)

SpecSubmitDuringLoad == InitSubmitDuringLoad /\ [][NextSubmitDuringLoad]_vars

(***************************************************************************)
(* Submits of one session.  A run begins with an active session of remote  *)
(* questions and a signed-in user, nothing submitted yet.  No start is     *)
(* invoked during the run, so every batch of records is of that session:   *)
(* the steps are submit, end and the answers to the pending inserts.       *)
(***************************************************************************)
InitResubmit ==
    /\ testState \in RemoteSessions(0)
    /\ user \in { Some(UserData(email, FALSE)) : email \in Emails }
    /\ authPending = 0
    /\ now = 0
    /\ loads = 0
    /\ fetched = None
    /\ binding = "first"
    /\ subjectScores = <<>>
    /\ testResults = <<>>
    /\ inflight = <<>>
    /\ persisted = <<>>
    /\ outcome = "none"
    /\ work = 0
    /\ db = InitialDb

NextResubmit ==
    \/ SubmitTest
    \/ endTest
    \/ \E i \in 1..Len(inflight) : InsertSucceeded(i)
    \/ \E i \in 1..Len(inflight) : InsertFailed(i)

SpecResubmit == InitResubmit /\ [][NextResubmit]_vars

(***************************************************************************)
(* A logout while a handleUserSession is awaiting.  A run begins with a    *)
(* signed-in user, an active session of remote questions and one           *)
(* handleUserSession that has been started by an event with a session and  *)
(* awaits the registration check.  No sign-in event is delivered during    *)
(* the run: the steps are logout, the continuation of the pending          *)
(* handleUserSession, submit and the answers to the pending inserts.       *)
(***************************************************************************)
InitLogout ==
    /\ testState \in RemoteSessions(0)
    /\ user \in { Some(UserData(email, FALSE)) : email \in Emails }
    /\ authPending = 1
    /\ now = 0
    /\ loads = 0
    /\ fetched = None
    /\ binding = "first"
    /\ subjectScores = <<>>
    /\ testResults = <<>>
    /\ inflight = <<>>
    /\ persisted = <<>>
    /\ outcome = "none"
    /\ work = 0
    /\ db = InitialDb

NextLogout ==
    \/ Logout
    \/ HandleUserSession
    \/ SubmitUnauthenticated
    \/ SubmitTest
    \/ \E i \in 1..Len(inflight) : InsertSucceeded(i)
    \/ \E i \in 1..Len(inflight) : InsertFailed(i)

SpecLogout == InitLogout /\ [][NextLogout]_vars

(***************************************************************************)
(* Row level security of the test_results table.  A request carries the    *)
(* claims of its token: auth.role() and auth.jwt() ->> 'email' (null when   *)
(* the token has no email).  Row level security is enabled on the table,   *)
(* so a command touches a row only when some policy that applies to the    *)
(* command and the role passes on the row.                                 *)
(***************************************************************************)
DbRoles == {"anon", "authenticated", "service_role"}

DbEmails == {"a@example.com", "b@example.com"}

DbSubjects == {"Math", "Science"}

\* The tokens of the requests.
Tokens ==
    { [role |-> "anon", email |-> None],
      [role |-> "service_role", email |-> None],
      [role |-> "authenticated", email |-> None] }
    \cup { [role |-> "authenticated", email |-> Some(e)] : e \in DbEmails }

\* Variant: end users manage their own rows, as they do their test sessions.
UsersManageOwnResults ==
    [name |-> "Users can insert their own test results",
     cmd |-> "ALL", roles |-> DbRoles, using |-> "email", check |-> "none"]

\* CREATE POLICY "Users can insert their own test results" ON test_results
\*     FOR INSERT WITH CHECK (auth.jwt() ->> 'email' = email);
UsersInsertOwnResults ==
    [name |-> "Users can insert their own test results",
     cmd |-> "INSERT", roles |-> DbRoles, using |-> "none", check |-> "email"]

\* CREATE POLICY "Service role can manage test results" ON test_results
\*     FOR ALL USING (auth.role() = 'service_role');
ServiceRoleManagesResults ==
    [name |-> "Service role can manage test results",
     cmd |-> "ALL", roles |-> DbRoles, using |-> "service_role", check |-> "none"]

\* CREATE POLICY "Users can insert test results" ON test_results
\*     FOR INSERT TO authenticated WITH CHECK (auth.jwt() ->> 'email' = email);
UsersInsertResults ==
    [name |-> "Users can insert test results",
     cmd |-> "INSERT", roles |-> {"authenticated"}, using |-> "none", check |-> "email"]

\* The policies on test_results; they are permissive, so they are OR-ed.
TestResultsPolicies ==
    {UsersInsertOwnResults, ServiceRoleManagesResults, UsersInsertResults}

\* The value of a policy expression on a row; a comparison with a null
\* email is null, which does not pass.
PolicyExpr(expr, token, row) ==
    CASE expr = "email" -> token.email # None /\ token.email[1] = row.email
      [] expr = "service_role" -> token.role = "service_role"
      [] OTHER -> FALSE

\* A policy applies to a command of a role.
PolicyApplies(policy, cmd, token) ==
    policy.cmd \in {cmd, "ALL"} /\ token.role \in policy.roles

\* USING: the existing rows a SELECT, UPDATE or DELETE may see.
RowVisible(cmd, token, row) ==
    \E policy \in TestResultsPolicies :
        /\ PolicyApplies(policy, cmd, token)
        /\ policy.using # "none"
        /\ PolicyExpr(policy.using, token, row)

\* WITH CHECK: the new rows an INSERT or UPDATE may write; a policy without
\* WITH CHECK checks new rows with its USING expression.
RowWritable(cmd, token, row) ==
    \E policy \in TestResultsPolicies :
        /\ PolicyApplies(policy, cmd, token)
        /\ PolicyExpr(IF policy.check # "none" THEN policy.check ELSE policy.using,
                      token, row)

\* INSERT INTO test_results: the row is stored when it passes, and the
\* statement fails otherwise.
DbInsert(token, email, subject) ==
    LET row == [id |-> db.nextId, email |-> email, subject |-> subject]
    IN /\ db.nextId <= MaxRows
       /\ db' = IF RowWritable("INSERT", token, row)
                THEN [rows |-> db.rows \cup {row}, nextId |-> db.nextId + 1,
                      reply |-> Some([cmd |-> "INSERT", token |-> token,
                                      status |-> "ok", rows |-> {row}])]
                ELSE [db EXCEPT !.reply =
                        Some([cmd |-> "INSERT", token |-> token,
                              status |-> "denied", rows |-> {}])]
       /\ UNCHANGED <<testState, user, authPending, now, loads, fetched, binding,
                      subjectScores, testResults, inflight, persisted, outcome, work>>

\* SELECT * FROM test_results: the rows the policies let the token see.
DbSelect(token) ==
    /\ db' = [db EXCEPT !.reply =
                Some([cmd |-> "SELECT", token |-> token, status |-> "ok",
                      rows |-> { row \in db.rows : RowVisible("SELECT", token, row) }])]
    /\ UNCHANGED <<testState, user, authPending, now, loads, fetched, binding,
                   subjectScores, testResults, inflight, persisted, outcome, work>>

\* UPDATE test_results SET subject = ...: the visible rows are rewritten;
\* the statement fails when a rewritten row does not pass.
DbUpdate(token, subject) ==
    LET seen == { row \in db.rows : RowVisible("UPDATE", token, row) }
        new(row) == [row EXCEPT !.subject = subject]
    IN /\ db' = IF \A row \in seen : RowWritable("UPDATE", token, new(row))
                THEN [db EXCEPT !.rows = (db.rows \ seen) \cup { new(row) : row \in seen },
                                !.reply = Some([cmd |-> "UPDATE", token |-> token,
                                                status |-> "ok", rows |-> seen])]
                ELSE [db EXCEPT !.reply = Some([cmd |-> "UPDATE", token |-> token,
                                                status |-> "denied", rows |-> {}])]
       /\ UNCHANGED <<testState, user, authPending, now, loads, fetched, binding,
                      subjectScores, testResults, inflight, persisted, outcome, work>>

\* DELETE FROM test_results: the visible rows are removed.
DbDelete(token) ==
    LET seen == { row \in db.rows : RowVisible("DELETE", token, row) }
    IN /\ db' = [db EXCEPT !.rows = db.rows \ seen,
                           !.reply = Some([cmd |-> "DELETE", token |-> token,
                                           status |-> "ok", rows |-> seen])]
       /\ UNCHANGED <<testState, user, authPending, now, loads, fetched, binding,
                      subjectScores, testResults, inflight, persisted, outcome, work>>

\* The table is empty and no client session is running.
InitPolicy ==
    /\ testState = InitialTestState
    /\ user = None
    /\ authPending = 0
    /\ now = 0
    /\ loads = 0
    /\ fetched = None
    /\ binding = "first"
    /\ subjectScores = <<>>
    /\ testResults = <<>>
    /\ inflight = <<>>
    /\ persisted = <<>>
    /\ outcome = "none"
    /\ work = 0
    /\ db = InitialDb

NextPolicy ==
    \/ \E token \in Tokens, email \in DbEmails, subject \in DbSubjects :
          DbInsert(token, email, subject)
    \/ \E token \in Tokens : DbSelect(token)
    \/ \E token \in Tokens, subject \in DbSubjects : DbUpdate(token, subject)
    \/ \E token \in Tokens : DbDelete(token)

SpecPolicy == InitPolicy /\ [][NextPolicy]_vars

(***************************************************************************)
(* Properties.                                                             *)
(***************************************************************************)
\* A step in which submitTest is called.
SubmitCalled == SubmitUnauthenticated \/ SubmitTest \/ SubmitTestSecond

\* A step in which submitTest hands its records to the backend.
RecordsBuilt == Len(inflight') > Len(inflight)

\* A step in which an awaited insert settles, with and without an error.
InsertRejected == Len(inflight') < Len(inflight) /\ persisted' = persisted
InsertAccepted == Len(persisted') > Len(persisted)

\* C1: in every reachable state the answers have the length of the questions
\* and answers[i].questionId = questions[i].id at every index i.
C1_AnswersAligned ==
    /\ Len(testState.answers) = Len(testState.questions)
    /\ \A i \in 1..Len(testState.questions) :
          testState.answers[i].questionId = testState.questions[i].id

\* C1 witness: a started session of two questions, one answered and one
\* marked for review.
C1_Witness ==
    /\ testState.isActive
    /\ Len(testState.questions) = 2
    /\ testState.answers[2].selectedAnswer # None
    /\ testState.answers[1].marked

\* C2 (as claimed): a submit without an identity fails with the
\* authentication error, builds and persists nothing and leaves the session
\* as it was.
C2_SubmitWithoutIdentity ==
    [][ (user = None /\ SubmitCalled) =>
           /\ outcome' = "AuthenticationRequired"
           /\ testState' = testState
           /\ testResults' = testResults
           /\ inflight' = inflight
           /\ persisted' = persisted ]_vars

\* C3: when an insert settles with an error, the submit is rejected with the
\* persistence failure, no further insert is issued, nothing is stored and
\* the session (active flag, questions, answers, cursor) is left as it was.
C3_InsertFailureKeepsSession ==
    [][ InsertRejected =>
           /\ outcome' = "PersistenceFailure"
           /\ testState' = testState
           /\ Len(inflight') = Len(inflight) - 1
           /\ \A b \in { inflight'[k] : k \in 1..Len(inflight') } :
                 b \in { inflight[k] : k \in 1..Len(inflight) } ]_vars

\* C3 witness: a submit of an active session was rejected by the backend and
\* the session is still active, with nothing in flight and nothing stored.
C3_Witness ==
    /\ outcome = "PersistenceFailure"
    /\ testState.isActive
    /\ Len(testState.questions) > 0
    /\ inflight = <<>>
    /\ persisted = <<>>

\* C4: when a submit completes successfully (its insert settles without an
\* error) the session is inactive.
C4_SuccessDeactivates ==
    [][ (InsertAccepted \/ SubmitTestSecond) =>
           /\ ~testState'.isActive
           /\ outcome' = "resolved" ]_vars

\* C4 witness: the records of a started session were stored and the session
\* is inactive.
C4_Witness ==
    /\ outcome = "resolved"
    /\ persisted # <<>>
    /\ persisted[1] # <<>>
    /\ Len(testState.questions) > 0
    /\ ~testState.isActive

\* The positions of the questions of subject S in session ts.
PositionsOf(ts, S) == { i \in 1..Len(ts.questions) : ts.questions[i].subject = S }

SubjectsOf(ts) == { ts.questions[i].subject : i \in 1..Len(ts.questions) }

\* C5: the score of each subject S computed at a submit has total = the
\* number of questions of S, correct = the number of positions of S whose
\* selected answer is the correct one, and percentage = 100 * correct / total
\* rounded to the nearest integer.
C5_ScorePerSubject ==
    [][ RecordsBuilt =>
          \A S \in SubjectsOf(testState) :
            \E k \in 1..Len(subjectScores') :
              LET total == Cardinality(PositionsOf(testState, S))
                  correct == Cardinality(
                      { i \in PositionsOf(testState, S) :
                          testState.answers[i].selectedAnswer
                            = Some(testState.questions[i].correctAnswer) })
                  p == testResults'[k].score
              IN /\ subjectScores'[k] =
                      [subject |-> S, correct |-> correct, total |-> total]
                 /\ testResults'[k].subject = S
                 /\ 2 * total * p <= 200 * correct + total
                 /\ 200 * correct + total < 2 * total * (p + 1)
                 /\ (total = 2 /\ correct = 1) => p = 50 ]_vars

\* C5 witness: three questions of one subject, two of them answered
\* correctly, scored 67.
C5_Witness ==
    /\ subjectScores = << [subject |-> "Math", correct |-> 2, total |-> 3] >>
    /\ Len(testResults) = 1
    /\ testResults[1].score = 67

\* C6: an answer record without a selected answer is never counted as
\* correct, and a session submitted with no answer selected scores 0 in
\* every subject.
C6_NullNeverCorrect ==
    [][ RecordsBuilt =>
          /\ \A k \in 1..Len(subjectScores') :
                subjectScores'[k].correct <=
                  Cardinality({ i \in PositionsOf(testState, subjectScores'[k].subject) :
                                  testState.answers[i].selectedAnswer # None })
          /\ (\A i \in 1..Len(testState.answers) :
                 testState.answers[i].selectedAnswer = None)
               => \A k \in 1..Len(testResults') : testResults'[k].score = 0 ]_vars

\* C6 witness: a submitted session with an unanswered question whose correct
\* option is 0, scored 0.
C6_Witness ==
    /\ Len(testState.questions) > 0
    /\ \A i \in 1..Len(testState.questions) :
          /\ testState.answers[i].selectedAnswer = None
          /\ testState.questions[i].correctAnswer = 0
    /\ testResults # <<>>
    /\ \A k \in 1..Len(testResults) : testResults[k].score = 0

\* C7: the records built by a submit hold exactly one record for each
\* subject among the session's questions and none for any other subject.
C7_OneRecordPerSubject ==
    [][ RecordsBuilt =>
          /\ { testResults'[k].subject : k \in 1..Len(testResults') }
               = SubjectsOf(testState)
          /\ Len(testResults') = Cardinality(SubjectsOf(testState))
          /\ { subjectScores'[k].subject : k \in 1..Len(subjectScores') }
               = SubjectsOf(testState)
          /\ Len(subjectScores') = Cardinality(SubjectsOf(testState)) ]_vars

\* C7 witness: a session of three questions in two subjects, interleaved,
\* gave two records.
C7_Witness ==
    /\ Len(testState.questions) = 3
    /\ testState.questions[1].subject = "Math"
    /\ testState.questions[2].subject = "Physics"
    /\ testState.questions[3].subject = "Math"
    /\ Len(testResults) = 2

\* The questions of the built-in set.
MockSet == { mockQuestions[i] : i \in 1..Len(mockQuestions) }

\* A step in which loadQuestions continues after a fetch that threw, answered
\* with an error or answered with no rows.
LoadedAfterFailure ==
    /\ fetched # None
    /\ fetched[1].kind \in {"throw", "error", "absent", "empty"}
    /\ fetched' = None

\* C8: when the questions fetch throws, answers with an error or answers
\* with no rows, the load makes the session active with min(6, size of the
\* built-in set) questions, each taken from the built-in set.
C8_FallbackOnFetchFailure ==
    [][ LoadedAfterFailure =>
            /\ testState'.isActive
            /\ Len(testState'.questions) = Min(6, Len(mockQuestions))
            /\ \A i \in 1..Len(testState'.questions) :
                  testState'.questions[i] \in MockSet
            /\ \A i, j \in 1..Len(testState'.questions) :
                  i # j => testState'.questions[i] # testState'.questions[j] ]_vars

\* C8 witness: an active session of six questions of the built-in set, not
\* in their built-in order.
C8_Witness ==
    /\ testState.isActive
    /\ Len(testState.questions) = 6
    /\ \A i \in 1..6 : testState.questions[i] \in MockSet
    /\ testState.questions[1].id = "reasoning_2"

\* Every question of session ts is answered with its correct option.
AllCorrect(ts) ==
    /\ Len(ts.questions) > 0
    /\ \A i \in 1..Len(ts.questions) :
          \E j \in 1..Len(ts.answers) :
             /\ ts.answers[j].questionId = ts.questions[i].id
             /\ ts.answers[j].selectedAnswer = Some(ts.questions[i].correctAnswer)

\* C9: a submit of a session in which every question was answered with its
\* correct option builds records whose scores are all 100.
C9_AllCorrectScores100 ==
    [][ (RecordsBuilt /\ AllCorrect(testState)) =>
          /\ testResults' # <<>>
          /\ \A k \in 1..Len(testResults') : testResults'[k].score = 100 ]_vars

\* C9 witness: after a start, both questions of the session were answered
\* correctly through selectAnswer, the session was submitted and stored.
C9_Witness ==
    /\ Len(testState.questions) = 2
    /\ AllCorrect(testState)
    /\ persisted # <<>>
    /\ persisted[1] = testResults
    /\ \A k \in 1..Len(testResults) : testResults[k].score = 100

\* The number of questions of subject S among the first i of session ts.
RankOf(ts, S, i) == Cardinality({ j \in PositionsOf(ts, S) : j <= i })

\* C10: in each record the questions snapshot is the session's questions of
\* the record's subject, in session order and unchanged, and the answers
\* snapshot is the answer records at the positions of those questions.
C10_SnapshotOfSubject ==
    [][ RecordsBuilt =>
          \A k \in 1..Len(testResults') :
            LET S == testResults'[k].subject
                Q == testResults'[k].questions.json
                A == testResults'[k].answers.json
            IN /\ Len(Q) = Cardinality(PositionsOf(testState, S))
               /\ Len(A) = Len(Q)
               /\ \A i \in PositionsOf(testState, S) :
                     /\ Q[RankOf(testState, S, i)] = JsonQuestion(testState.questions[i])
                     /\ A[RankOf(testState, S, i)] = JsonAnswer(testState.answers[i])
               /\ \A j \in 1..Len(A) : A[j][1][2] = Q[j][1][2] ]_vars

\* C10 witness: a session of three questions in two subjects, interleaved,
\* with answers selected; the Math record holds the first and third question
\* and their answers.
C10_Witness ==
    /\ Len(testState.questions) = 3
    /\ testState.questions[1].subject = "Math"
    /\ testState.questions[2].subject = "Physics"
    /\ testState.questions[3].subject = "Math"
    /\ testState.answers[3].selectedAnswer = Some(3)
    /\ Len(testResults) = 2
    /\ testResults[1].subject = "Math"
    /\ Len(testResults[1].answers.json) = 2
    /\ testResults[1].answers.json[2] = JsonAnswer(testState.answers[3])
    /\ testResults[1].questions.json[2] = JsonQuestion(testState.questions[3])

\* The cursor of session ts is an index of its questions.
CursorInRange(ts) ==
    0 <= ts.currentQuestion /\ ts.currentQuestion <= Len(ts.questions) - 1

\* C11: from a cursor inside [0, len(questions)-1], nextQuestion and
\* previousQuestion keep the cursor inside that range: nextQuestion at the
\* last index and previousQuestion at index 0 leave it where it is, and
\* otherwise they move it by exactly one.
C11_NextPreviousStayInRange ==
    [][ /\ (CursorInRange(testState) /\ nextQuestion) =>
              /\ CursorInRange(testState')
              /\ testState'.currentQuestion =
                    IF testState.currentQuestion = Len(testState.questions) - 1
                    THEN testState.currentQuestion
                    ELSE testState.currentQuestion + 1
        /\ (CursorInRange(testState) /\ previousQuestion) =>
              /\ CursorInRange(testState')
              /\ testState'.currentQuestion =
                    IF testState.currentQuestion = 0
                    THEN testState.currentQuestion
                    ELSE testState.currentQuestion - 1 ]_vars

\* C11 witness: a session of two questions, untouched but for its cursor,
\* after three calls that left the cursor on the last question.
C11_Witness ==
    /\ testState.isActive
    /\ Len(testState.questions) = 2
    /\ testState.currentQuestion = 1
    /\ work = MaxWork
    /\ now = 0
    /\ outcome = "none"
    /\ \A i \in 1..2 : /\ testState.answers[i].selectedAnswer = None
                       /\ ~testState.answers[i].marked

\* C12 (as claimed): in every reachable state of a session that holds at
\* least one question, the cursor lies in [0, len(questions)-1].
C12_CursorAlwaysInRange ==
    Len(testState.questions) >= 1 => CursorInRange(testState)

\* C13: navigateToQuestion(i) sets the cursor to i exactly, for indices
\* inside and outside [0, len(questions)-1] alike, and changes no other
\* field of the session.
C13_NavigateVerbatim ==
    [][ \A index \in IndexInputs :
          navigateToQuestion(index) =>
            /\ testState'.currentQuestion = index
            /\ testState'.questions = testState.questions
            /\ testState'.answers = testState.answers
            /\ testState'.timeRemaining = testState.timeRemaining
            /\ testState'.isActive = testState.isActive
            /\ testState'.startTime = testState.startTime ]_vars

\* C13 witness: an active session with questions whose cursor is -1, which
\* only a navigation to index -1 produces.
C13_Witness ==
    /\ testState.isActive
    /\ Len(testState.questions) >= 1
    /\ testState.currentQuestion = -1

\* C14: one markForReview(questionId) flips the marked flag of the answer
\* record with that questionId and changes nothing else, and applying it a
\* second time with the same questionId gives back the original state.
C14_MarkForReviewInvolution ==
    [][ \A questionId \in QuestionIdInputs :
          markForReview(questionId) =>
            /\ MarkForReviewUpdate(testState', questionId) = testState
            /\ Len(testState'.answers) = Len(testState.answers)
            /\ \A i \in 1..Len(testState.answers) :
                  testState'.answers[i] =
                    IF testState.answers[i].questionId = questionId
                    THEN [questionId |-> testState.answers[i].questionId,
                          selectedAnswer |-> testState.answers[i].selectedAnswer,
                          timeSpent |-> testState.answers[i].timeSpent,
                          marked |-> ~testState.answers[i].marked]
                    ELSE testState.answers[i]
            /\ testState'.questions = testState.questions
            /\ testState'.currentQuestion = testState.currentQuestion
            /\ testState'.timeRemaining = testState.timeRemaining
            /\ testState'.isActive = testState.isActive
            /\ testState'.startTime = testState.startTime ]_vars

\* C14 witness: a session of two questions in which the first record is
\* marked and keeps its selected answer, and the second is not marked.
C14_Witness ==
    /\ Len(testState.questions) = 2
    /\ testState.answers[1].marked
    /\ testState.answers[1].selectedAnswer # None
    /\ ~testState.answers[2].marked

\* C15: selectAnswer(questionId, k) sets selectedAnswer to k on the answer
\* record with that questionId, for k inside and outside the option range
\* alike, and changes nothing else; when no record has that questionId the
\* state is unchanged.
C15_SelectAnswerFrame ==
    [][ \A questionId \in QuestionIdInputs, answer \in AnswerInputs :
          selectAnswer(questionId, answer) =>
            /\ Len(testState'.answers) = Len(testState.answers)
            /\ \A i \in 1..Len(testState.answers) :
                  testState'.answers[i] =
                    IF testState.answers[i].questionId = questionId
                    THEN [questionId |-> testState.answers[i].questionId,
                          selectedAnswer |-> Some(answer),
                          timeSpent |-> testState.answers[i].timeSpent,
                          marked |-> testState.answers[i].marked]
                    ELSE testState.answers[i]
            /\ testState'.questions = testState.questions
            /\ testState'.currentQuestion = testState.currentQuestion
            /\ testState'.timeRemaining = testState.timeRemaining
            /\ testState'.isActive = testState.isActive
            /\ testState'.startTime = testState.startTime
            /\ (\A i \in 1..Len(testState.answers) :
                   testState.answers[i].questionId # questionId)
                 => testState' = testState ]_vars

\* C15 witness: a session of two questions whose first record holds the
\* out-of-range option 4 and is still marked, the second record untouched.
C15_Witness ==
    /\ Len(testState.questions) = 2
    /\ testState.answers[1].selectedAnswer = Some(4)
    /\ testState.answers[1].marked
    /\ testState.answers[2].selectedAnswer = None
    /\ ~testState.answers[2].marked

\* C16: end sets the active flag to false and leaves questions, answers,
\* the cursor, timeRemaining and startTime unchanged; on a session that is
\* already inactive it changes nothing.
C16_EndFrame ==
    [][ endTest =>
          /\ ~testState'.isActive
          /\ testState'.questions = testState.questions
          /\ testState'.answers = testState.answers
          /\ testState'.currentQuestion = testState.currentQuestion
          /\ testState'.timeRemaining = testState.timeRemaining
          /\ testState'.startTime = testState.startTime
          /\ ~testState.isActive => testState' = testState ]_vars

\* C16 witness: a session ended without any submit, still holding its two
\* questions, a selected answer and a cursor on the second question.
C16_Witness ==
    /\ ~testState.isActive
    /\ outcome = "none"
    /\ inflight = <<>>
    /\ Len(testState.questions) = 2
    /\ testState.currentQuestion = 1
    /\ testState.answers[1].selectedAnswer # None
    /\ testState.startTime # None

\* A step in which the question load of a start completes.
LoadCompleted == fetched # None /\ fetched' = None

\* C17: when the question load of a start completes, whatever the state
\* before, the session is active with cursor 0, timeRemaining 3600,
\* startTime the current time, and one answer record per question with
\* selectedAnswer null, timeSpent 0 and marked false.
C17_StartOverwritesSession ==
    [][ LoadCompleted =>
          /\ testState'.isActive
          /\ testState'.currentQuestion = 0
          /\ testState'.timeRemaining = 3600
          /\ testState'.startTime = Some(now')
          /\ Len(testState'.answers) = Len(testState'.questions)
          /\ \A i \in 1..Len(testState'.questions) :
                testState'.answers[i] =
                  [questionId |-> testState'.questions[i].id,
                   selectedAnswer |-> None, timeSpent |-> 0, marked |-> FALSE] ]_vars

\* C17 witness: a session started at time 0 was submitted and, its insert
\* still awaited and the session still active, a second start replaced it
\* with a session stamped with the later time.
C17_Witness ==
    /\ inflight # <<>>
    /\ inflight[1] # <<>>
    /\ inflight[1][1].test_time = Some(ToISOString(0))
    /\ work = MaxWork
    /\ loads = 0
    /\ testState.isActive
    /\ testState.startTime = Some(TickMs)
    /\ Len(testState.questions) >= 1
    /\ testState.currentQuestion = 0

\* A step of an operation that only edits or browses the session, or of a
\* submit that fails.
EditOrFailedSubmit ==
    \/ \E questionId \in QuestionIdInputs, answer \in AnswerInputs :
          selectAnswer(questionId, answer)
    \/ \E questionId \in QuestionIdInputs : markForReview(questionId)
    \/ \E index \in IndexInputs : navigateToQuestion(index)
    \/ nextQuestion
    \/ previousQuestion
    \/ SubmitUnauthenticated
    \/ InsertRejected

\* C18: the active flag goes from false to true only when the question
\* load of a start completes, and from true to false only through end or a
\* submit that completes successfully; selectAnswer, markForReview,
\* navigateToQuestion, nextQuestion, previousQuestion and a failed submit
\* never change it.
C18_ActiveFlagLifecycle ==
    [][ /\ (~testState.isActive /\ testState'.isActive) => LoadCompleted
        /\ (testState.isActive /\ ~testState'.isActive) =>
              (endTest \/ InsertAccepted \/ SubmitTestSecond)
        /\ EditOrFailedSubmit => testState'.isActive = testState.isActive ]_vars

\* C18 witness: a session of two questions went from inactive to active by
\* a start, had an answer selected while active, and became inactive by a
\* submit whose records were stored.
C18_Witness ==
    /\ ~testState.isActive
    /\ Len(testState.questions) = 2
    /\ testState.answers[2].selectedAnswer # None
    /\ outcome = "resolved"
    /\ Len(persisted) = 1
    /\ inflight = <<>>

\* C19: the start timestamp of a session is set when the question load of
\* a start creates the session, and no other step changes it.
C19_StartTimeImmutable ==
    [][ /\ LoadCompleted => testState'.startTime = Some(now')
        /\ testState'.startTime # testState.startTime => LoadCompleted ]_vars

\* C19 witness: a session stamped at time 0 had an answer selected and was
\* submitted after the clock advanced; its timestamp is still 0.
C19_Witness ==
    /\ testState.startTime = Some(0)
    /\ now = TickMs
    /\ Len(testState.questions) >= 1
    /\ testState.answers[1].selectedAnswer # None
    /\ inflight # <<>>
    /\ inflight[1] # <<>>
    /\ inflight[1][1].duration_seconds = TickMs \div 1000

\* The tokens of end users: role authenticated, with or without an email.
EndUserTokens == { token \in Tokens : token.role = "authenticated" }

\* C20: a request with an end user's token stores a test_results row only
\* when the row's email is the email of the token, and never reads back,
\* updates or deletes a row.
C20_EndUserInsertOnly ==
    [][ \A token \in EndUserTokens :
          /\ \A email \in DbEmails, subject \in DbSubjects :
                (DbInsert(token, email, subject) /\ db'.rows # db.rows)
                  => token.email = Some(email)
          /\ DbSelect(token) => db'.reply[1].rows = {}
          /\ \A subject \in DbSubjects :
                DbUpdate(token, subject) => (db'.rows = db.rows /\ db'.reply[1].rows = {})
          /\ DbDelete(token) => (db'.rows = db.rows /\ db'.reply[1].rows = {}) ]_vars

\* C20 witness: the table holds a row with the email of an end user, that
\* user's latest request was a SELECT, and it returned no row.
C20_Witness ==
    /\ \E row \in db.rows : row.email = "a@example.com"
    /\ db.reply # None
    /\ db.reply[1].cmd = "SELECT"
    /\ db.reply[1].token = [role |-> "authenticated", email |-> Some("a@example.com")]
    /\ db.reply[1].rows = {}

\* The 1-based correct_answer of the row of the questions table with id.
CorrectAnswerOfRow(id) ==
    (CHOOSE row \in RowsByAnswer : IdToString(row.id) = id).correct_answer

\* C21: a remote row with correct_answer = k is loaded as a question with
\* correctAnswer = k - 1, inside 0..3, and options in the order option_a,
\* option_b, option_c, option_d; the scorer counts the answer to that
\* question as correct exactly when option index k - 1 is selected.
C21_RowConversion ==
    [][ /\ (LoadCompleted /\ fetched[1].kind = "rows") =>
              \A i \in 1..Len(testState'.questions) :
                \E j \in 1..Len(fetched[1].data[1]) :
                  LET q == testState'.questions[i]
                      row == fetched[1].data[1][j]
                  IN /\ q.id = row.id
                     /\ q.correctAnswer = row.correct_answer - 1
                     /\ q.correctAnswer \in 0..3
                     /\ q.options = <<row.option_a, row.option_b,
                                      row.option_c, row.option_d>>
        /\ RecordsBuilt =>
              \A k \in 1..Len(subjectScores') :
                subjectScores'[k].correct =
                  Cardinality({ i \in PositionsOf(testState, subjectScores'[k].subject) :
                      testState.answers[i].selectedAnswer =
                        Some(CorrectAnswerOfRow(testState.questions[i].id) - 1) }) ]_vars

\* C21 witness: the row with correct_answer 4 was loaded as a question
\* with correctAnswer 3, option index 3 was selected for it and the submit
\* scored its subject 100.
C21_Witness ==
    /\ Len(testState.questions) = 1
    /\ testState.questions[1].id = "row_4"
    /\ testState.questions[1].correctAnswer = 3
    /\ testState.answers[1].selectedAnswer = Some(3)
    /\ Len(testResults) = 1
    /\ testResults[1].score = 100

\* The pool loadQuestions chooses for fetch outcome o: the converted rows
\* when the fetch answered without error and with at least one row, the
\* built-in set otherwise.
PoolOf(o) ==
    IF o.kind = "rows"
    THEN { ConvertRow(o.data[1][j]) : j \in 1..Len(o.data[1]) }
    ELSE MockSet

\* C22: after a start completes, questions holds exactly min(6, n)
\* questions, n the size of the chosen pool; they are pairwise distinct
\* and all of that one pool.
C22_SessionFromOnePool ==
    [][ LoadCompleted =>
          /\ Len(testState'.questions) = Min(6, Cardinality(PoolOf(fetched[1])))
          /\ \A i \in 1..Len(testState'.questions) :
                testState'.questions[i] \in PoolOf(fetched[1])
          /\ \A i, j \in 1..Len(testState'.questions) :
                i # j => testState'.questions[i] # testState'.questions[j] ]_vars

\* C22 witness: a session of six questions cut from a pool of seven remote
\* rows, the seventh row first.
C22_Witness ==
    /\ testState.isActive
    /\ Len(testState.questions) = 6
    /\ testState.questions[1].id = "row_7"
    /\ \A i \in 1..6 : testState.questions[i] \notin MockSet

\* C23 (as claimed): once end has been called the session stays inactive
\* until a start invoked after that end completes its load.  In the runs of
\* SpecEndDuringLoad no start is invoked after the run begins and only end
\* deactivates the session, so an inactive session must stay inactive: the
\* load that was in flight when end was called must not re-activate it.
C23_EndedStaysInactive ==
    [][ ~testState.isActive => ~testState'.isActive ]_vars

\* C24 (as claimed): a successful submission deactivates only the session it
\* submitted.  In the runs of SpecSubmitDuringLoad the one insert in flight
\* belongs to the session of the initial state and the one pending load is
\* of a start invoked after that submit, so when the insert settles without
\* an error after the load completed (loads = 0), the session, which the
\* load set, must be left active.
C24_SuccessEndsOwnSessionOnly ==
    [][ (InsertAccepted /\ loads = 0) => testState'.isActive ]_vars

\* The answers of the current session to the questions of a subject, as a
\* submit invoked now would write them.
AnswersNow(subject) ==
    JsonAnswers(FilterBySubject(testState.answers, testState.questions, subject,
                                Len(testState.answers)))

\* C25: the records of a submit are computed from the session's questions
\* and answers when submit is invoked, and are persisted as computed: a step
\* adds a batch to those in flight only as the records of the session of
\* that moment, an insert that settles without an error stores exactly one
\* of the batches in flight, and every other step (selectAnswer and
\* markForReview among them) leaves the batches in flight and the batches
\* stored as they were.
C25_RecordsAreSnapshot ==
    [][ /\ RecordsBuilt =>
              /\ user # None
              /\ inflight' = Append(inflight,
                     TestResultsOf(testState, user[1], SubjectScoresOf(testState), now'))
              /\ persisted' = persisted
        /\ InsertAccepted =>
              \E i \in 1..Len(inflight) :
                 /\ persisted' = Append(persisted, inflight[i])
                 /\ inflight' = RemoveAt(inflight, i)
        /\ (Len(inflight') = Len(inflight)) =>
              /\ inflight' = inflight
              /\ persisted' = persisted ]_vars

\* C25 witness: the records of a session were stored after an answer of
\* that session was changed while the insert was in flight: the stored
\* answers are not the answers the session holds now.
C25_Witness ==
    /\ persisted # <<>>
    /\ persisted[1] # <<>>
    /\ persisted[1][1].questions =
          JsonQuestions(FilterBySubject(testState.questions, testState.questions,
                                        persisted[1][1].subject,
                                        Len(testState.questions)))
    /\ persisted[1][1].answers # AnswersNow(persisted[1][1].subject)

\* C26 (as claimed): at most one batch of submission records is persisted
\* per started session.  In the runs of SpecResubmit there is one session,
\* so at most one batch may ever be stored, whether a further submit comes
\* after a successful one, after an end, or while the first is in flight.
C26_OneBatchPerSession ==
    Len(persisted) <= 1

\* The batches of records built by the submits so far: the last one built,
\* those whose insert is awaited and those stored.
BatchesBuilt ==
    {testResults} \cup { inflight[i] : i \in 1..Len(inflight) }
                  \cup { persisted[i] : i \in 1..Len(persisted) }

\* C27: every subject entry of a submit has 0 <= correct <= total and
\* total >= 1, and every submission record built has an integer score
\* between 0 and 100 inclusive, whatever answers selectAnswer stored,
\* out-of-range option indices included.
C27_ScoreInRange ==
    /\ \A k \in 1..Len(subjectScores) :
          /\ subjectScores[k].total >= 1
          /\ subjectScores[k].correct >= 0
          /\ subjectScores[k].correct <= subjectScores[k].total
    /\ \A batch \in BatchesBuilt :
          \A k \in 1..Len(batch) : batch[k].score \in 0..100

\* C27 witness: a session of two questions in which an option index outside
\* 0..3 was selected has been submitted: its records hold that answer and a
\* score in range.
C27_Witness ==
    /\ Len(testState.questions) = 2
    /\ \E i \in 1..Len(testState.answers) :
          /\ testState.answers[i].selectedAnswer = Some(4)
          /\ testResults # <<>>
          /\ testResults[1].subject = testState.questions[i].subject
          /\ testResults[1].answers = AnswersNow(testResults[1].subject)
          /\ testResults[1].score \in 0..100
    /\ inflight = <<testResults>>

\* C28 (as claimed): after logout completes the identity stays null until a
\* later sign-in event is delivered.  In the runs of SpecLogout the user is
\* signed in at first, so the identity is null only after a logout, and no
\* sign-in event is delivered, so a null identity must stay null: the
\* handleUserSession that was awaiting when logout ran must not restore it.
C28_LoggedOutStaysLoggedOut ==
    [][ user = None => user' = None ]_vars

====
